---- MODULE Spec2Model ----
(***************************************************************************)
(* A model of music.py: one run of main(), which loads the ground truth,   *)
(* walks the audio directory, asks the model for a prediction per clip,    *)
(* accumulates per-clip difference records and writes two tables.          *)
(*                                                                         *)
(* Numbers.  Means and standard deviations are kept in quarters: the       *)
(* integer q stands for the float q/4, so 4 is 1.0 and 2 is 0.5.  Quarters *)
(* and their sums and differences are exact in binary floating point, so   *)
(* the integer arithmetic below is the float arithmetic of the program.    *)
(* A string produced by the format "{:.4f}" is kept as the integer number  *)
(* of ten-thousandths it shows ("0.2500" is 2500).                         *)
(*                                                                         *)
(* Text.  A response text is a sequence of lexical chunks: "{", "}", a     *)
(* prose word "w" and "m", a well-formed comma-separated list of members   *)
(* whose meaning is the response's payload bundle; or it is the JSON       *)
(* literal null.                                                           *)
(***************************************************************************)
EXTENDS Integers, Sequences, FiniteSets

\* ------------------------------------------------------------------ bounds
\* Most clips in a CorpusResults handed to a table function on its own.
MaxRecords == 2
\* Longest response text, in chunks.
MaxLen == 3
\* Largest mean or std a prediction carries, in quarters (5 is 1.25).
MaxVal == 5

\* --------------------------------------------------------------- constants
\* The penalty 1.0 and the penalty 0.5, in quarters.
PenaltyMean == 4
PenaltyStd == 2
\* The only status analyze_audio accepts.
HTTP_OK == 200
\* The statuses the endpoint answers with: success and a server error.
StatusCodes == {HTTP_OK, 500}

emotions ==
    << "amazement", "solemnity", "tenderness", "nostalgia", "calmness",
       "power", "joyful_activation", "tension", "sadness" >>

EmotionSet == { emotions[i] : i \in DOMAIN emotions }

EmotionIndex(k) == CHOOSE i \in DOMAIN emotions : emotions[i] = k

\* The embedded listener table: listeners[n] is the count of "song_n".
listeners ==
    << 48, 47, 45, 46, 17, 17, 17, 18, 17, 17,
       50, 45, 27, 11, 11, 12, 11, 11, 11, 11,
       53, 45, 19, 12, 24, 12, 12, 28, 12, 12,
       50, 46, 26, 14, 13, 14, 14, 13, 14, 14 >>

\* ------------------------------------------------------------------ values
EmptyBundle == [k \in {} |-> [mean |-> 0, std |-> 0]]

EmptyRecord == [k \in {} |-> [diff_mean |-> 0, diff_std |-> 0]]

\* A parsed JSON value: a dict (a bundle) or None.
Dict(b) == [isdict |-> TRUE, b |-> b]

None == [isdict |-> FALSE, b |-> EmptyBundle]

Abs(x) == IF x < 0 THEN -x ELSE x

\* ------------------------------------------------------------ text parsing
Chunks == {"{", "}", "w", "m"}

Texts == UNION { [1..n -> Chunks] : n \in 0..MaxLen } \cup { <<"null">> }

HasMembers(text) == \E i \in DOMAIN text : text[i] = "m"

\* json.loads: an object, or the literal null; anything else is a
\* JSONDecodeError (ok = FALSE).
json_loads(text, payload) ==
    IF text = <<"null">> THEN [ok |-> TRUE, value |-> None]
    ELSE IF text = <<"{", "}">> THEN [ok |-> TRUE, value |-> Dict(EmptyBundle)]
    ELSE IF text = <<"{", "m", "}">> THEN [ok |-> TRUE, value |-> Dict(payload)]
    ELSE [ok |-> FALSE, value |-> None]

\* re.search(r'\{.*\}', content, re.DOTALL): from the first "{" that has a
\* "}" after it to the last "}".
re_search(text) ==
    LET opens == { i \in DOMAIN text : text[i] = "{" /\
                       \E j \in DOMAIN text : j > i /\ text[j] = "}" }
    IN  IF opens = {} THEN [found |-> FALSE, group |-> <<>>]
        ELSE LET i == CHOOSE x \in opens : \A y \in opens : x <= y
                 j == CHOOSE x \in DOMAIN text :
                          /\ text[x] = "}"
                          /\ \A y \in DOMAIN text : text[y] = "}" => y <= x
             IN  [found |-> TRUE, group |-> SubSeq(text, i, j)]

\* ------------------------------------------------------------ analyze_audio
\* The result of a call: exc is "none" when it returned pred; requested
\* tells whether the POST was issued.
Raised(exc, requested) == [exc |-> exc, requested |-> requested, pred |-> None]

Returned(pred) == [exc |-> "none", requested |-> TRUE, pred |-> pred]

\* Lines 85-92: the content of the response, parsed.
extract_json(text, payload) ==
    LET direct == json_loads(text, payload)
        m == re_search(text)
        sub == json_loads(m.group, payload)
    IN  IF direct.ok THEN Returned(direct.value)
        ELSE IF ~m.found THEN Returned(Dict(EmptyBundle))
        ELSE IF sub.ok THEN Returned(sub.value)
        ELSE Raised("JSONDecodeError", TRUE)

\* A variant that leaves the status of the response unchecked.
analyze_audio_unchecked_status(key, resp) ==
    IF ~key THEN Raised("RuntimeError", FALSE)
    ELSE IF ~resp.wellformed THEN Raised("KeyError", TRUE)
    ELSE extract_json(resp.text, resp.payload)

analyze_audio(key, resp) ==
    IF ~key THEN Raised("RuntimeError", FALSE)
    ELSE IF resp.status # HTTP_OK THEN Raised("APIError", TRUE)
    ELSE IF ~resp.wellformed THEN Raised("KeyError", TRUE)
    ELSE extract_json(resp.text, resp.payload)

\* ---------------------------------------------------- calculate_differences
Penalty == [diff_mean |-> PenaltyMean, diff_std |-> PenaltyStd]

\* A variant that reads pred[emotion] without looking for the key first.
calculate_differences_strict(truth, pred) ==
    IF ~pred.isdict /\ \E k \in EmotionSet : k \in DOMAIN truth
    THEN [exc |-> "TypeError", rec |-> EmptyRecord]
    ELSE IF \E k \in EmotionSet : k \in DOMAIN truth /\ k \notin DOMAIN pred.b
    THEN [exc |-> "KeyError", rec |-> EmptyRecord]
    ELSE [exc |-> "none",
          rec |-> [k \in EmotionSet |->
                     IF k \in DOMAIN truth /\ k \in DOMAIN pred.b
                     THEN [diff_mean |-> Abs(truth[k].mean - pred.b[k].mean),
                           diff_std |-> Abs(truth[k].std - pred.b[k].std)]
                     ELSE Penalty]]

\* A variant whose penalty is the full range of both metrics.
calculate_differences_wide_penalty(truth, pred) ==
    IF ~pred.isdict /\ \E k \in EmotionSet : k \in DOMAIN truth
    THEN [exc |-> "TypeError", rec |-> EmptyRecord]
    ELSE [exc |-> "none",
          rec |-> [k \in EmotionSet |->
                     IF k \in DOMAIN truth /\ k \in DOMAIN pred.b
                     THEN [diff_mean |-> Abs(truth[k].mean - pred.b[k].mean),
                           diff_std |-> Abs(truth[k].std - pred.b[k].std)]
                     ELSE [diff_mean |-> PenaltyMean, diff_std |-> PenaltyMean]]]

\* A variant that asks only whether the prediction has the key.
calculate_differences_pred_only(truth, pred) ==
    IF ~pred.isdict /\ \E k \in EmotionSet : k \in DOMAIN truth
    THEN [exc |-> "TypeError", rec |-> EmptyRecord]
    ELSE [exc |-> "none",
          rec |-> [k \in EmotionSet |->
                     IF k \in DOMAIN pred.b
                     THEN IF k \in DOMAIN truth
                          THEN [diff_mean |-> Abs(truth[k].mean - pred.b[k].mean),
                                diff_std |-> Abs(truth[k].std - pred.b[k].std)]
                          ELSE [diff_mean |-> pred.b[k].mean,
                                diff_std |-> pred.b[k].std]
                     ELSE Penalty]]

\* "emotion in truth and emotion in pred" raises TypeError on a pred that is
\* None as soon as an emotion is in truth; otherwise every emotion gets its
\* absolute differences or the penalty.
calculate_differences(truth, pred) ==
    IF ~pred.isdict /\ \E k \in EmotionSet : k \in DOMAIN truth
    THEN [exc |-> "TypeError", rec |-> EmptyRecord]
    ELSE [exc |-> "none",
          rec |-> [k \in EmotionSet |->
                     IF k \in DOMAIN truth /\ k \in DOMAIN pred.b
                     THEN [diff_mean |-> Abs(truth[k].mean - pred.b[k].mean),
                           diff_std |-> Abs(truth[k].std - pred.b[k].std)]
                     ELSE Penalty]]

\* ------------------------------------------------------------- "{:.4f}"
\* num/den rounded to the nearest integer, ties to even: what the format
\* does to a float that holds the tie exactly.  (Every tie that the inputs
\* below produce is a multiple of 1/32 and so is held exactly.)
RoundHalfEven(num, den) ==
    LET q == num \div den
        r == num % den
    IN  IF 2 * r < den THEN q
        ELSE IF 2 * r > den THEN q + 1
        ELSE q + (q % 2)

\* f"{x:.4f}" for x = num/den, as the number of ten-thousandths shown.
Format4f(num, den) == RoundHalfEven(num * 10000, den)

\* A cell of the breakdown table: a formatted number or the text "N/A".
Cell(v) == [na |-> FALSE, val |-> v]

NA == [na |-> TRUE, val |-> 0]

\* --------------------------------------------------------------- the dict
\* all_differences is a dict, kept in insertion order: a sequence of
\* <<song_id, record>> with no song_id twice.
Keys(d) == { d[i][1] : i \in DOMAIN d }

DictSet(d, key, value) ==
    IF key \in Keys(d)
    THEN [i \in DOMAIN d |-> IF d[i][1] = key THEN <<key, value>> ELSE d[i]]
    ELSE Append(d, <<key, value>>)

DictGet(d, key) == d[CHOOSE i \in DOMAIN d : d[i][1] = key][2]

\* ------------------------------------------- create_overall_summary_table
RECURSIVE SumSeq(_)
SumSeq(s) == IF s = <<>> THEN 0 ELSE Head(s) + SumSeq(Tail(s))

\* The values of one field of one record, emotion by emotion from the
\* i-th on, for the emotions the record has.
RECURSIVE CollectSong(_, _, _)
CollectSong(song_diffs, i, field) ==
    IF i > Len(emotions) THEN <<>>
    ELSE (IF emotions[i] \in DOMAIN song_diffs
          THEN << IF field = "diff_mean" THEN song_diffs[emotions[i]].diff_mean
                  ELSE song_diffs[emotions[i]].diff_std >>
          ELSE <<>>) \o CollectSong(song_diffs, i + 1, field)

RECURSIVE CollectAll(_, _)
CollectAll(d, field) ==
    IF d = <<>> THEN <<>>
    ELSE CollectSong(Head(d)[2], 1, field) \o CollectAll(Tail(d), field)

Average4f(values) ==
    IF values # <<>> THEN Format4f(SumSeq(values), 4 * Len(values))
    ELSE Format4f(0, 1)

\* A variant that divides by nine per song instead of by the number of
\* values collected.
create_overall_summary_table_per_song(d) ==
    LET avg(values) == IF values # <<>>
                       THEN Format4f(SumSeq(values), 4 * Len(emotions) * Len(d))
                       ELSE Format4f(0, 1)
    IN  [Metric |-> <<"Average Difference in Mean", "Average Difference in Std">>,
         Value |-> << avg(CollectAll(d, "diff_mean")),
                      avg(CollectAll(d, "diff_std")) >>]

create_overall_summary_table(d) ==
    [Metric |-> <<"Average Difference in Mean", "Average Difference in Std">>,
     Value |-> << Average4f(CollectAll(d, "diff_mean")),
                  Average4f(CollectAll(d, "diff_std")) >>]

\* -------------------------------------- create_song_level_breakdown_table
BreakdownRow(song_id, song_diffs, metric) ==
    [song_id |-> song_id,
     metric |-> metric,
     cells |-> [k \in EmotionSet |->
                  IF k \in DOMAIN song_diffs
                  THEN Cell(Format4f(IF metric = "diff_mean"
                                     THEN song_diffs[k].diff_mean
                                     ELSE song_diffs[k].diff_std, 4))
                  ELSE NA]]

RECURSIVE BreakdownRows(_)
BreakdownRows(d) ==
    IF d = <<>> THEN <<>>
    ELSE << BreakdownRow(Head(d)[1], Head(d)[2], "diff_mean"),
            BreakdownRow(Head(d)[1], Head(d)[2], "diff_std") >>
         \o BreakdownRows(Tail(d))

\* pd.DataFrame(rows): the columns are the keys of the rows, so a table of
\* no rows has no columns.
DataFrame(rows) ==
    [columns |-> IF rows = <<>> THEN <<>> ELSE <<"song_id", "metric">> \o emotions,
     rows |-> rows]

\* The dict with its items in ascending order of song_id.
RECURSIVE SortedItems(_)
SortedItems(d) ==
    IF d = <<>> THEN <<>>
    ELSE LET i == CHOOSE x \in DOMAIN d : \A y \in DOMAIN d : d[x][1] <= d[y][1]
         IN  <<d[i]>> \o SortedItems(SubSeq(d, 1, i - 1) \o SubSeq(d, i + 1, Len(d)))

\* A variant that walks the clips in sorted order.
create_song_level_breakdown_table_sorted(d) ==
    DataFrame(BreakdownRows(SortedItems(d)))

create_song_level_breakdown_table(d) == DataFrame(BreakdownRows(d))

\* ------------------------------------------------------------ environment
\* The clips of the world: song_1 and song_2 are in the listener table,
\* song_41 is not.
SongIds == {1, 2, 41}

\* What data_dir.glob("song_*.opus") can yield: distinct clips, any order.
Directories ==
    { s \in UNION { [1..n -> SongIds] : n \in 0..Cardinality(SongIds) } :
        \A i, j \in DOMAIN s : i # j => s[i] # s[j] }

\* A complete, in-range ground-truth bundle that differs from emotion to
\* emotion.
FullTruth ==
    [k \in EmotionSet |-> [mean |-> EmotionIndex(k) % 5, std |-> EmotionIndex(k) % 3]]

\* A ground-truth bundle without "sadness" and with a key of its own.
PartialTruth ==
    [k \in (EmotionSet \ {"sadness"}) \cup {"note"} |->
        IF k = "note" THEN [mean |-> 4, std |-> 2] ELSE FullTruth[k]]

TruthOf(id, variant) ==
    IF variant = 1 THEN FullTruth
    ELSE IF id % 2 = 1 THEN PartialTruth
    ELSE EmptyBundle

EmptyStore == [id \in {} |-> EmptyBundle]

\* The contents emotify_song_level_stats.json can have.
TruthStores ==
    { [id \in D |-> TruthOf(id, v)] :
        D \in {SongIds} \cup { SongIds \ {x} : x \in SongIds }, v \in {1, 2} }

\* The file on disk: there or not.
TruthFiles ==
    { [exists |-> TRUE, data |-> t] : t \in TruthStores }
        \cup { [exists |-> FALSE, data |-> EmptyStore] }

\* The bundles a response can carry: in range or not, complete or not,
\* with or without a key of its own.
PredStats == { [mean |-> 1, std |-> 1], [mean |-> MaxVal, std |-> MaxVal] }

PredShapes ==
    { EmotionSet, {"amazement"}, (EmotionSet \ {"calmness"}) \cup {"note"} }

Payloads == { [k \in K |-> st] : K \in PredShapes, st \in PredStats }

\* The responses requests.post can return.  wellformed tells whether the
\* body has choices[0].message.content.
Responses ==
    { [status |-> st, wellformed |-> w, text |-> <<"{", "m", "}">>, payload |-> p] :
        st \in StatusCodes \ {HTTP_OK}, w \in BOOLEAN, p \in Payloads }
    \cup { [status |-> HTTP_OK, wellformed |-> FALSE, text |-> <<>>,
            payload |-> EmptyBundle] }
    \cup UNION { { [status |-> HTTP_OK, wellformed |-> TRUE, text |-> t, payload |-> p] :
                     p \in IF HasMembers(t) THEN Payloads ELSE {EmptyBundle} } :
                 t \in Texts }

\* Without a key analyze_audio raises before it posts: there is no response.
NoResponse == [status |-> 0, wellformed |-> FALSE, text |-> <<>>, payload |-> EmptyBundle]

\* ------------------------------------------------------------------ state
VARIABLES
    api_key,          \* whether OPENROUTER_API_KEY is set
    truth_file,       \* emotify_song_level_stats.json on disk
    directory,        \* the listing of data/raw, in glob's order
    pc,               \* "start", "loop", "done"; "pure" when a table
                      \* function is applied on its own
    truth_data,       \* main's truth_data
    idx,              \* position of the for loop in the listing
    all_differences,  \* main's all_differences
    log,              \* what main has printed
    requests,         \* the POSTs issued
    returned,         \* the calls of analyze_audio that returned
    last,             \* the last pass through the try block
    written,          \* the files written, in order
    table1,           \* contents of table1_overall_summary.csv
    table2            \* contents of table2_song_breakdown.csv

vars ==
    << api_key, truth_file, directory, pc, truth_data, idx, all_differences,
       log, requests, returned, last, written, table1, table2 >>

env == << api_key, truth_file, directory >>

NoTable1 == [Metric |-> <<>>, Value |-> <<>>]

NoTable2 == [columns |-> <<"unwritten">>, rows |-> <<>>]

NoCall ==
    [song_id |-> 0, status |-> 0, reached |-> FALSE, direct_ok |-> FALSE,
     matched |-> FALSE, sub_ok |-> FALSE, exc |-> "none", pred |-> None,
     truth |-> EmptyBundle, inserted |-> FALSE, differences |-> EmptyRecord]

Event(ev, id, msg) == [ev |-> ev, id |-> id, msg |-> msg]

Init ==
    /\ api_key \in BOOLEAN
    /\ truth_file \in TruthFiles
    /\ directory \in Directories
    /\ pc = "start"
    /\ truth_data = EmptyStore
    /\ idx = 1
    /\ all_differences = <<>>
    /\ log = <<>>
    /\ requests = <<>>
    /\ returned = {}
    /\ last = NoCall
    /\ written = <<>>
    /\ table1 = NoTable1
    /\ table2 = NoTable2

\* ------------------------------------------------------------------- main
\* Lines 189-194, the file is there: load it and enter the loop.
LoadGroundTruth ==
    /\ pc = "start"
    /\ truth_file.exists
    /\ truth_data' = truth_file.data
    /\ log' = Append(log, Event("loaded", 0, "Loaded truth data"))
    /\ pc' = "loop"
    /\ UNCHANGED << env, idx, all_differences, requests, returned, last,
                    written, table1, table2 >>

\* Lines 189-194, the file is missing: FileNotFoundError, print and return.
LoadGroundTruthMissing ==
    /\ pc = "start"
    /\ ~truth_file.exists
    /\ log' = Append(log, Event("error", 0, "FileNotFoundError"))
    /\ pc' = "done"
    /\ UNCHANGED << env, truth_data, idx, all_differences, requests, returned,
                    last, written, table1, table2 >>

\* A variant of line 201 that looks the clip up in the listener table only.
Eligible_listeners_only(song_id) == song_id \in DOMAIN listeners

\* Line 201: the clip has ground truth and a listener count.
Eligible(song_id) == song_id \in DOMAIN truth_data /\ song_id \in DOMAIN listeners

\* Lines 199-203: a clip without ground truth or listener count is skipped.
SkipClip ==
    /\ pc = "loop"
    /\ idx <= Len(directory)
    /\ ~Eligible(directory[idx])
    /\ log' = Append(log, Event("skip", directory[idx], "no truth data or listener count"))
    /\ idx' = idx + 1
    /\ UNCHANGED << env, pc, truth_data, all_differences, requests, returned,
                    last, written, table1, table2 >>

\* Lines 205-221 for one clip and one response: the try block and its
\* except clause.
TryBlock(song_id, resp) ==
    LET nl_ok == song_id \in DOMAIN listeners
        n_listeners == IF nl_ok THEN listeners[song_id] ELSE 0
        call == IF nl_ok THEN analyze_audio(api_key, resp) ELSE Raised("KeyError", FALSE)
        t_ok == song_id \in DOMAIN truth_data
        truth == IF t_ok THEN truth_data[song_id] ELSE EmptyBundle
        diff == calculate_differences(truth, call.pred)
        exc == IF call.exc # "none" THEN call.exc
               ELSE IF ~t_ok THEN "KeyError"
               ELSE diff.exc
        reached == call.requested /\ resp.status = HTTP_OK /\ resp.wellformed
        direct == json_loads(resp.text, resp.payload)
        m == re_search(resp.text)
    IN  /\ all_differences' =
              IF exc = "none" THEN DictSet(all_differences, song_id, diff.rec)
              ELSE all_differences
        /\ log' = log \o << Event("processing", song_id, "Processing"),
                            IF exc = "none"
                            THEN Event("sample", song_id, "Sample diffs")
                            ELSE Event("error", song_id, exc) >>
        /\ requests' = IF call.requested
                       THEN Append(requests, [song_id |-> song_id, n |-> n_listeners])
                       ELSE requests
        /\ returned' = IF call.exc = "none"
                       THEN returned \cup {[song_id |-> song_id, isdict |-> call.pred.isdict]}
                       ELSE returned
        /\ last' = [song_id |-> song_id,
                    status |-> IF call.requested THEN resp.status ELSE 0,
                    reached |-> reached,
                    direct_ok |-> reached /\ direct.ok,
                    matched |-> reached /\ m.found,
                    sub_ok |-> reached /\ m.found /\ json_loads(m.group, resp.payload).ok,
                    exc |-> exc,
                    pred |-> call.pred,
                    truth |-> truth,
                    inserted |-> exc = "none",
                    differences |-> IF exc = "none" THEN diff.rec ELSE EmptyRecord]

ProcessClip ==
    /\ pc = "loop"
    /\ idx <= Len(directory)
    /\ Eligible(directory[idx])
    /\ \E resp \in IF api_key THEN Responses ELSE {NoResponse} :
           TryBlock(directory[idx], resp)
    /\ idx' = idx + 1
    /\ UNCHANGED << env, pc, truth_data, written, table1, table2 >>

\* A variant of line 223 that saves whatever the loop left.
ShouldSave_always(d) == TRUE

\* Line 223: "if all_differences".
ShouldSave(d) == d # <<>>

\* Lines 223-232: both tables are built and written.
SaveResults ==
    /\ pc = "loop"
    /\ idx > Len(directory)
    /\ ShouldSave(all_differences)
    /\ log' = Append(log, Event("processed", Len(all_differences), "Processed songs"))
    /\ table1' = create_overall_summary_table(all_differences)
    /\ table2' = create_song_level_breakdown_table(all_differences)
    /\ written' = written \o <<"table1_overall_summary.csv", "table2_song_breakdown.csv">>
    /\ pc' = "done"
    /\ UNCHANGED << env, truth_data, idx, all_differences, requests, returned, last >>

\* Lines 234-235: nothing to save.
NoResults ==
    /\ pc = "loop"
    /\ idx > Len(directory)
    /\ ~ShouldSave(all_differences)
    /\ log' = Append(log, Event("no_results", 0, "No results to save"))
    /\ pc' = "done"
    /\ UNCHANGED << env, truth_data, idx, all_differences, requests, returned,
                    last, written, table1, table2 >>

Next ==
    \/ LoadGroundTruth
    \/ LoadGroundTruthMissing
    \/ SkipClip
    \/ ProcessClip
    \/ SaveResults
    \/ NoResults

Spec == Init /\ [][Next]_vars

\* ------------------------------------------- the table functions on their own
\* Difference records as a table function can be handed them: complete or
\* partial, equal or unequal from emotion to emotion.
RecordValues ==
    { [diff_mean |-> 1, diff_std |-> 0], [diff_mean |-> 3, diff_std |-> 1],
      [diff_mean |-> 4, diff_std |-> 2] }

RecordShapes == { EmotionSet, EmotionSet \ {"tension"}, {"amazement"} }

\* Eight values whose mean, 1/32, lies halfway between 0.0312 and 0.0313.
TieRecord ==
    [k \in EmotionSet \ {"tension"} |->
        IF k = "amazement" THEN [diff_mean |-> 1, diff_std |-> 1]
        ELSE [diff_mean |-> 0, diff_std |-> 0]]

Records == { [k \in K |-> v] : K \in RecordShapes, v \in RecordValues } \cup {TieRecord}

CorpusInputs ==
    { d \in UNION { [1..n -> SongIds \X Records] : n \in 0..MaxRecords } :
        \A i, j \in DOMAIN d : i # j => d[i][1] # d[j][1] }

InitPure ==
    /\ api_key = TRUE
    /\ truth_file = [exists |-> FALSE, data |-> EmptyStore]
    /\ directory = <<>>
    /\ pc = "pure"
    /\ truth_data = EmptyStore
    /\ idx = 1
    /\ all_differences \in CorpusInputs
    /\ log = <<>>
    /\ requests = <<>>
    /\ returned = {}
    /\ last = NoCall
    /\ written = <<>>
    /\ table1 = NoTable1
    /\ table2 = NoTable2

ApplySummary ==
    /\ pc = "pure"
    /\ table1 = NoTable1
    /\ table1' = create_overall_summary_table(all_differences)
    /\ UNCHANGED << env, pc, truth_data, idx, all_differences, log, requests,
                    returned, last, written, table2 >>

ApplyBreakdown ==
    /\ pc = "pure"
    /\ table2 = NoTable2
    /\ table2' = create_song_level_breakdown_table(all_differences)
    /\ UNCHANGED << env, pc, truth_data, idx, all_differences, log, requests,
                    returned, last, written, table1 >>

NextPure == ApplySummary \/ ApplyBreakdown

SpecPure == InitPure /\ [][NextPure]_vars

\* ------------------------------------------------------------------ claims
\* The clips of the listing that are in all three stores.
InAllThree ==
    { directory[i] : i \in DOMAIN directory }
        \cap DOMAIN truth_file.data \cap DOMAIN listeners

HasEmotion(b) == \E k \in EmotionSet : k \in DOMAIN b

\* Every mean and std of the bundle's emotions is in its expected range.
InRange(b) ==
    \A k \in EmotionSet \cap DOMAIN b :
        /\ 0 <= b[k].mean /\ b[k].mean <= PenaltyMean
        /\ 0 <= b[k].std /\ b[k].std <= PenaltyStd

MaxPenaltyRecord == [k \in EmotionSet |-> Penalty]

\* C1: once a clip has failed on the missing credential, the loop handles
\* no further clip (none is announced, skipped or requested) and no table
\* is written.
C1_MissingCredentialAbortsRun ==
    \A i \in DOMAIN log :
        (log[i].ev = "error" /\ log[i].msg = "RuntimeError") =>
            /\ \A j \in DOMAIN log :
                   j > i => log[j].ev \notin {"processing", "skip", "sample"}
            /\ written = <<>>

\* C2: when the direct parse of a response text fails and the text has no
\* "{"..."}" substring, or has one that does not parse either, extraction
\* returns the empty bundle and the clip is recorded with the maximum
\* penalty for all nine emotions.
C2_ExtractionNeverFailsClip ==
    (last.reached /\ ~last.direct_ok /\ (~last.matched \/ ~last.sub_ok)) =>
        /\ last.exc = "none"
        /\ last.pred = Dict(EmptyBundle)
        /\ last.song_id \in Keys(all_differences)
        /\ DictGet(all_differences, last.song_id) = MaxPenaltyRecord

C4_Step ==
    (/\ pc = "loop"
     /\ idx <= Len(directory)
     /\ idx' = idx + 1
     /\ last'.song_id = directory[idx]
     /\ (last'.status \notin {0, HTTP_OK} \/ last'.exc # "none"))
    => /\ all_differences' = all_differences
       /\ pc' = "loop"
       /\ directory[idx] \notin Keys(all_differences')
       /\ log'[Len(log')].ev = "error" /\ log'[Len(log')].id = directory[idx]

C4_Done ==
    (pc = "done" /\ truth_file.exists) =>
        \A i \in DOMAIN directory :
            \E j \in DOMAIN log :
                log[j].id = directory[i] /\ log[j].ev \in {"processing", "skip"}

C4_FailureIsolated == [](C4_Done) /\ [][C4_Step]_vars

\* A finished run in which a clip was recorded, a later one failed on the
\* status of its response, and the record is still there.
C4_Witness ==
    /\ pc = "done"
    /\ Len(all_differences) = 1
    /\ last.status \notin {0, HTTP_OK}
    /\ last.exc = "APIError"
    /\ \E i, j \in DOMAIN log :
           i < j /\ log[i].ev = "sample" /\ log[j].ev = "error"
                 /\ log[j].id = last.song_id

\* C5: only clips that are in the listing, the ground truth and the
\* listener table are requested, announced, reported as failed, recorded or
\* written to the breakdown; every other clip the loop has passed was
\* skipped.
C5_OnlyClipsInAllThree ==
    /\ Keys(all_differences) \subseteq InAllThree
    /\ \A i \in DOMAIN requests : requests[i].song_id \in InAllThree
    /\ \A i \in DOMAIN log :
           log[i].ev \in {"processing", "sample"} \/ (log[i].ev = "error" /\ log[i].id # 0)
               => log[i].id \in InAllThree
    /\ \A i \in DOMAIN table2.rows : table2.rows[i].song_id \in InAllThree
    /\ \A i \in DOMAIN directory :
           (i < idx /\ directory[i] \notin InAllThree) =>
               \E j \in DOMAIN log : log[j].ev = "skip" /\ log[j].id = directory[i]

\* A finished run that recorded one clip and skipped one clip without
\* listener count and one without ground truth.
C5_Witness ==
    /\ pc = "done"
    /\ Len(all_differences) = 1
    /\ written # <<>>
    /\ \E i \in DOMAIN directory :
           directory[i] \in DOMAIN truth_data /\ directory[i] \notin DOMAIN listeners
    /\ \E i \in DOMAIN directory :
           directory[i] \notin DOMAIN truth_data /\ directory[i] \in DOMAIN listeners

\* C6: the record computed for a clip has exactly the nine emotions; an
\* emotion in both bundles gets the absolute differences of mean and of
\* std, an emotion missing from either gets exactly (1.0, 0.5).  The value
\* depends on the nine emotions' entries only, so other keys have no effect.
C6_DifferencesPerEmotion ==
    last.inserted =>
        /\ DOMAIN last.differences = EmotionSet
        /\ \A k \in EmotionSet :
               LET d == last.differences[k]
                   t == last.truth
                   p == last.pred.b
               IN  IF k \in DOMAIN t /\ k \in DOMAIN p
                   THEN /\ d.diff_mean >= 0
                        /\ d.diff_mean \in {t[k].mean - p[k].mean, p[k].mean - t[k].mean}
                        /\ d.diff_std >= 0
                        /\ d.diff_std \in {t[k].std - p[k].std, p[k].std - t[k].std}
                   ELSE d.diff_mean = PenaltyMean /\ d.diff_std = PenaltyStd

\* A record from two bundles that each lack an emotion the other has and
\* each carry a key that is no emotion.
C6_Witness ==
    /\ last.inserted
    /\ last.pred.isdict
    /\ "note" \in DOMAIN last.truth /\ "note" \in DOMAIN last.pred.b
    /\ \E k \in EmotionSet : k \in DOMAIN last.truth /\ k \notin DOMAIN last.pred.b
    /\ \E k \in EmotionSet : k \notin DOMAIN last.truth /\ k \in DOMAIN last.pred.b
    /\ \E k \in EmotionSet : k \in DOMAIN last.truth /\ k \in DOMAIN last.pred.b
                               /\ last.differences[k].diff_mean > 0

C8_SinkWrites ==
    /\ written # <<>> =>
           /\ pc = "done"
           /\ idx > Len(directory)
           /\ all_differences # <<>>
    /\ (pc = "done" /\ all_differences # <<>>) =>
           /\ written = <<"table1_overall_summary.csv", "table2_song_breakdown.csv">>
           /\ table1 # NoTable1 /\ table2 # NoTable2
    /\ (pc = "done" /\ all_differences = <<>>) =>
           /\ written = <<>>
           /\ table1 = NoTable1 /\ table2 = NoTable2
           /\ log[Len(log)].ev = IF truth_file.exists THEN "no_results" ELSE "error"

\* A finished run that wrote both tables.
C8_Witness ==
    /\ pc = "done"
    /\ all_differences # <<>>
    /\ written = <<"table1_overall_summary.csv", "table2_song_breakdown.csv">>

\* The (clip, emotion) pairs of a CorpusResults.
Pairs(d) == { p \in (DOMAIN d) \X EmotionSet : p[2] \in DOMAIN d[p[1]][2] }

RECURSIVE SumOver(_, _, _)
SumOver(d, pairs, field) ==
    IF pairs = {} THEN 0
    ELSE LET p == CHOOSE x \in pairs : TRUE
             v == IF field = "diff_mean" THEN d[p[1]][2][p[2]].diff_mean
                  ELSE d[p[1]][2][p[2]].diff_std
         IN  v + SumOver(d, pairs \ {p}, field)

\* shown is the four-decimal rendering of total/(4*n): it is within half
\* a ten-thousandth of it.
Renders(shown, total, n) ==
    /\ 2 * (shown * 4 * n - 10000 * total) <= 4 * n
    /\ 2 * (10000 * total - shown * 4 * n) <= 4 * n

\* C9: the summary table shows, to four decimals, the arithmetic mean of
\* diff_mean over every (clip, emotion) pair of CorpusResults and the
\* arithmetic mean of diff_std over the same pairs; for an empty
\* CorpusResults it shows 0 for both.
C9_SummaryIsMean ==
    table1 # NoTable1 =>
        LET pairs == Pairs(all_differences)
            n == Cardinality(pairs)
        IN  /\ Len(table1.Value) = 2
            /\ table1.Metric = <<"Average Difference in Mean", "Average Difference in Std">>
            /\ IF n = 0 THEN table1.Value = <<0, 0>>
               ELSE /\ Renders(table1.Value[1], SumOver(all_differences, pairs, "diff_mean"), n)
                    /\ Renders(table1.Value[2], SumOver(all_differences, pairs, "diff_std"), n)

\* A summary of two clips of which one has a partial record.
C9_Witness ==
    /\ table1 # NoTable1
    /\ Len(all_differences) = 2
    /\ Cardinality(Pairs(all_differences)) = Len(emotions) + 1
    /\ table1.Value[1] > 0

\* The rows of the breakdown: two per clip, in the order of CorpusResults,
\* "diff_mean" then "diff_std", a cell per emotion that is "N/A" exactly
\* when the record lacks the emotion and else shows the value.
BreakdownRowsRight ==
    /\ Len(table2.rows) = 2 * Len(all_differences)
    /\ \A i \in DOMAIN all_differences :
           LET id == all_differences[i][1]
               rec == all_differences[i][2]
               mean_row == table2.rows[2 * i - 1]
               std_row == table2.rows[2 * i]
           IN  /\ mean_row.song_id = id /\ mean_row.metric = "diff_mean"
               /\ std_row.song_id = id /\ std_row.metric = "diff_std"
               /\ DOMAIN mean_row.cells = EmotionSet
               /\ DOMAIN std_row.cells = EmotionSet
               /\ \A k \in EmotionSet :
                      /\ mean_row.cells[k].na <=> k \notin DOMAIN rec
                      /\ std_row.cells[k].na <=> k \notin DOMAIN rec
                      /\ k \in DOMAIN rec =>
                             /\ 4 * mean_row.cells[k].val = 10000 * rec[k].diff_mean
                             /\ 4 * std_row.cells[k].val = 10000 * rec[k].diff_std

====
